---- MODULE Spec2Model ----
(***************************************************************************)
(* Model of flask_app.py: the per-route Fetcher (fetch_route), the         *)
(* Aggregator (api_trains) that fans fetch_route out over ROUTES on a      *)
(* thread pool, and the Follow lookup (api_train_follow).                  *)
(*                                                                         *)
(* The specifications share the variables:                                 *)
(*   Spec        one GET /api/trains request (pool, workers, flatten)      *)
(*   FairSpec    Spec with the fairness of the pool and of the GETs        *)
(*   FetchSpec   one call of fetch_route on an arbitrary upstream response *)
(*   FollowSpec  one GET /api/train/<rn> request                           *)
(***************************************************************************)
EXTENDS Integers, Sequences, FiniteSets, TLC

VARIABLES
    pc,         \* api_trains: "idle" | "mapped" | "joined" | "done"
    task,       \* per route index: "none" | "queued" | "running" | "done"
    upstream,   \* per route index: the response the upstream gave (NoResp before)
    results,    \* per route index: outcome of the future of pool.map
    gets,       \* per route index: number of upstream GETs issued
    overtaken,  \* some route's fetch finished before that of an earlier route
    trains,     \* api_trains: the flattened list
    httpStatus, \* api_trains: status of the response (0 = none yet)
    fRoute,     \* FetchSpec: argument of fetch_route
    fResp,      \* FetchSpec: what requests.get / resp.json() produce
    fPc,        \* FetchSpec: "call" | "done"
    fBody,      \* FetchSpec: how the try block ended
    fResult,    \* FetchSpec: what fetch_route returned
    rn,         \* FollowSpec: the run number, a sequence of characters
    fwPc,       \* FollowSpec: "start" | "requesting" | "done"
    fwResp,     \* FollowSpec: what requests.get / resp.json() produce
    fwResult,   \* FollowSpec: the (body, status) the handler returned
    netCalls    \* FollowSpec: number of upstream GETs issued

vars == <<pc, task, upstream, results, gets, overtaken, trains, httpStatus,
          fRoute, fResp, fPc, fBody, fResult,
          rn, fwPc, fwResp, fwResult, netCalls>>

aggVars == <<pc, task, upstream, results, gets, overtaken, trains, httpStatus>>
fetchVars == <<fRoute, fResp, fPc, fBody, fResult>>
followVars == <<rn, fwPc, fwResp, fwResult, netCalls>>

(***************************************************************************)
(* Bounds of the model.                                                    *)
(***************************************************************************)
NumRoutes == 3       \* how many of the configured routes a request fans out to
MaxTrains == 2       \* longest 'train' list of a route entry
MaxEntries == 2      \* longest 'route' list of an envelope
MaxEtas == 2         \* longest 'eta' list of a follow envelope
MaxRnLen == 2        \* longest run number, in characters

(***************************************************************************)
(* JSON values as Python sees them after resp.json().  An object is a      *)
(* function from its keys to values, a list is a sequence.                 *)
(***************************************************************************)
Null == [k |-> "null"]
Bool(b) == [k |-> "bool", v |-> b]
Num(n) == [k |-> "num", v |-> n]
Str(s) == [k |-> "str", v |-> s]
List(s) == [k |-> "list", v |-> s]
Obj(f) == [k |-> "obj", v |-> f]
EmptyObj == Obj([x \in {} |-> Null])

\* isinstance(x, list), isinstance(x, dict)
IsList(x) == x.k = "list"
IsDict(x) == x.k = "obj"

\* bool(x): None, 0, '', [] and {} are falsy
Truthy(x) ==
    CASE x.k = "null" -> FALSE
      [] x.k = "bool" -> x.v
      [] x.k = "num"  -> x.v # 0
      [] x.k = "str"  -> x.v # ""
      [] x.k = "list" -> x.v # <<>>
      [] x.k = "obj"  -> DOMAIN x.v # {}

Digits == <<"0", "1", "2", "3", "4", "5", "6", "7", "8", "9">>

RECURSIVE NatStr(_)
NatStr(n) == IF n < 10 THEN Digits[n + 1]
             ELSE NatStr(n \div 10) \o Digits[(n % 10) + 1]

\* str(x); the text of a list or dict is abbreviated, it always starts with a bracket
PyStr(x) ==
    CASE x.k = "null" -> "None"
      [] x.k = "bool" -> IF x.v THEN "True" ELSE "False"
      [] x.k = "num"  -> IF x.v < 0 THEN "-" \o NatStr(0 - x.v) ELSE NatStr(x.v)
      [] x.k = "str"  -> x.v
      [] x.k = "list" -> "[..]"
      [] x.k = "obj"  -> "{..}"

\* d.get(key, default) on a dict d
GetOr(d, key, default) == IF key \in DOMAIN d.v THEN d.v[key] ELSE default

\* d.get(key) on a dict d
Get(d, key) == GetOr(d, key, Null)

\* an assignment that leaves a key the dict already has alone
SetItemKeep(d, key, val) ==
    Obj([x \in (DOMAIN d.v) \cup {key} |-> IF x \in DOMAIN d.v THEN d.v[x] ELSE val])

\* d[key] = val on a dict d
SetItem(d, key, val) ==
    Obj([x \in (DOMAIN d.v) \cup {key} |-> IF x = key THEN val ELSE d.v[x]])

\* if not isinstance(x, list): x = [x]
AsList(x) == IF IsList(x) THEN x.v ELSE <<x>>

(***************************************************************************)
(* What one upstream GET can produce.                                      *)
(***************************************************************************)
Timeout == [kind |-> "timeout"]
TransportError == [kind |-> "transport"]
Undecodable == [kind |-> "undecodable"]
Json(j) == [kind |-> "json", json |-> j]
NoResp == [kind |-> "none"]

(***************************************************************************)
(* fetch_route.  The outcome of a block of code is [exc, trains]: exc says *)
(* an exception left the block, trains is the returned list (or, with exc, *)
(* the local list 'trains' at the moment of the raise).                    *)
(***************************************************************************)
Returned(s) == [exc |-> FALSE, trains |-> s]
Raised(s) == [exc |-> TRUE, trains |-> s]

\* for t in train_list: t['rt'] = route; trains.append(t)
RECURSIVE StampAll(_, _, _)
StampAll(train_list, route, acc) ==
    IF train_list = <<>> THEN Returned(acc)
    ELSE LET t == Head(train_list) IN
         IF ~IsDict(t) THEN Raised(acc)        \* TypeError: no item assignment
         ELSE StampAll(Tail(train_list), route,
                       Append(acc, SetItem(t, "rt", Str(route))))

\* a loop that ends at the first route entry without vehicles
RECURSIVE EachRouteStops(_, _, _)
EachRouteStops(route_data, route, acc) ==
    IF route_data = <<>> THEN Returned(acc)
    ELSE LET r == Head(route_data) IN
         IF ~IsDict(r) THEN Raised(acc)
         ELSE LET train_list == Get(r, "train") IN
              IF ~Truthy(train_list) THEN Returned(acc)
              ELSE LET inner == StampAll(AsList(train_list), route, acc) IN
                   IF inner.exc THEN inner
                   ELSE EachRouteStops(Tail(route_data), route, inner.trains)

\* for r in route_data: ...
RECURSIVE EachRoute(_, _, _)
EachRoute(route_data, route, acc) ==
    IF route_data = <<>> THEN Returned(acc)
    ELSE LET r == Head(route_data) IN
         IF ~IsDict(r) THEN Raised(acc)        \* AttributeError: no .get
         ELSE LET train_list == Get(r, "train") IN
              IF ~Truthy(train_list) THEN EachRoute(Tail(route_data), route, acc)
              ELSE LET inner == StampAll(AsList(train_list), route, acc) IN
                   IF inner.exc THEN inner
                   ELSE EachRoute(Tail(route_data), route, inner.trains)

\* a comparison of the raw status with '0', without str()
StatusFailsRaw(ctatt) == Get(ctatt, "errCd") # Str("0")

\* str(ctatt.get('errCd')) != '0'
StatusFails(ctatt) == PyStr(Get(ctatt, "errCd")) # "0"

\* the try block of fetch_route
fetch_route_try(route, resp) ==
    IF resp.kind \in {"timeout", "transport"} THEN Raised(<<>>)   \* requests.get
    ELSE IF resp.kind = "undecodable" THEN Raised(<<>>)           \* resp.json()
    ELSE LET data == resp.json IN
         IF ~IsDict(data) THEN Raised(<<>>)
         ELSE LET ctatt == GetOr(data, "ctatt", EmptyObj) IN
              IF ~IsDict(ctatt) THEN Raised(<<>>)
              ELSE IF StatusFails(ctatt) THEN Returned(<<>>)
              ELSE LET route_data == Get(ctatt, "route") IN
                   IF ~Truthy(route_data) THEN Returned(<<>>)
                   ELSE EachRoute(AsList(route_data), route, <<>>)

\* a handler that returns what was collected before the error
fetch_route_partial(route, resp) ==
    LET body == fetch_route_try(route, resp) IN
    IF body.exc THEN Returned(body.trains) ELSE body

\* a handler that catches the errors of requests.get only
fetch_route_narrow(route, resp) ==
    LET body == fetch_route_try(route, resp) IN
    IF body.exc /\ resp.kind \in {"timeout", "transport"} THEN Returned(<<>>) ELSE body

\* except Exception: return []
fetch_route(route, resp) ==
    LET body == fetch_route_try(route, resp) IN
    IF body.exc THEN Returned(<<>>) ELSE body

(***************************************************************************)
(* Configuration.                                                          *)
(***************************************************************************)
ROUTES == <<"red", "blue", "brn", "G", "org", "P", "pink", "Y">>

max_workers == 8

\* the routes one request fans out to: the first NumRoutes of ROUTES
RouteIdx == 1..NumRoutes

SeqsUpTo(S, n) == UNION {[1..m -> S] : m \in 0..n}

(***************************************************************************)
(* Upstream responses fetch_route is applied to in FetchSpec: every shape  *)
(* of the envelope, well-formed or not, within the bounds.                 *)
(***************************************************************************)
Absent == [k |-> "absent"]

\* the object with the fields of f that are not Absent
MkObj(f) == Obj([x \in {y \in DOMAIN f : f[y] # Absent} |-> f[x]])

\* the n-th vehicle the upstream lists; every second one already has an 'rt'
Vehicle(n) ==
    IF n % 2 = 0 THEN Obj([rn |-> Str(NatStr(n)), rt |-> Str("upstream")])
    ELSE Obj([rn |-> Str(NatStr(n))])

\* what stands at place n of a train list: a vehicle, an empty object, a string
VehicleKinds == {"vehicle", "empty", "junk"}
VehicleVal(kind, n) ==
    CASE kind = "vehicle" -> Vehicle(n)
      [] kind = "empty" -> EmptyObj
      [] kind = "junk" -> Str("junk")

TrainLists ==
    UNION {{[i \in 1..m |-> VehicleVal(kinds[i], i)] : kinds \in [1..m -> VehicleKinds]} :
               m \in 0..MaxTrains}

TrainFields ==
    {Absent, Null} \cup {VehicleVal(kind, 1) : kind \in VehicleKinds}
        \cup {List(s) : s \in TrainLists}

RouteEntries ==
    {MkObj([train |-> tf]) : tf \in TrainFields}
        \cup {Obj([name |-> Str("line")]), Str("junk")}

RouteFields ==
    {Absent, Null, Str("junk")} \cup RouteEntries
        \cup {List(s) : s \in SeqsUpTo(RouteEntries, MaxEntries)}

OkCodes == {Num(0), Str("0")}
BadCodes == {Absent, Null, Num(1), Str("1"), Str("00"), Bool(FALSE)}

Envelope(errCd, route) == Obj([ctatt |-> MkObj([errCd |-> errCd, route |-> route])])

\* a few route fields: none, one vehicle, two route entries
SomeRouteFields ==
    { Absent,
      MkObj([train |-> Vehicle(1)]),
      List(<<MkObj([train |-> List(<<Vehicle(1), Vehicle(2)>>)]),
             MkObj([train |-> Vehicle(1)])>>) }

FetchResponses ==
    {Timeout, TransportError, Undecodable}
        \cup {Json(j) : j \in {Null, Str("junk"), List(<<>>), EmptyObj,
                               Obj([ctatt |-> Null]), Obj([ctatt |-> Str("junk")])}}
        \cup {Json(Envelope(Num(0), rf)) : rf \in RouteFields}
        \cup {Json(Envelope(c, rf)) : c \in {Str("0")} \cup BadCodes, rf \in SomeRouteFields}

(***************************************************************************)
(* FetchSpec: one call of fetch_route.                                     *)
(***************************************************************************)
IdleAgg ==
    /\ pc = "off"
    /\ task = [i \in RouteIdx |-> "none"]
    /\ upstream = [i \in RouteIdx |-> NoResp]
    /\ results = [i \in RouteIdx |-> Returned(<<>>)]
    /\ gets = [i \in RouteIdx |-> 0]
    /\ overtaken = FALSE
    /\ trains = <<>>
    /\ httpStatus = 0

IdleFetch ==
    /\ fRoute = ""
    /\ fResp = NoResp
    /\ fPc = "off"
    /\ fBody = Returned(<<>>)
    /\ fResult = Returned(<<>>)

IdleFollow ==
    /\ rn = <<>>
    /\ fwPc = "off"
    /\ fwResp = NoResp
    /\ fwResult = [exc |-> FALSE, status |-> 0, body |-> Null]
    /\ netCalls = 0

FetchInit ==
    /\ IdleAgg
    /\ IdleFollow
    /\ fRoute \in {ROUTES[1], ROUTES[Len(ROUTES)]}
    /\ fResp \in FetchResponses
    /\ fPc = "call"
    /\ fBody = Returned(<<>>)
    /\ fResult = Returned(<<>>)

\* fetch_route(fRoute) runs against the response fResp
FetchCall ==
    /\ fPc = "call"
    /\ fBody' = fetch_route_try(fRoute, fResp)
    /\ fResult' = fetch_route(fRoute, fResp)
    /\ fPc' = "done"
    /\ UNCHANGED <<fRoute, fResp>>
    /\ UNCHANGED aggVars
    /\ UNCHANGED followVars

FetchNext == FetchCall

FetchSpec == FetchInit /\ [][FetchNext]_vars

(***************************************************************************)
(* Upstream responses of the aggregate request.  A well-formed envelope is *)
(* built from a shape, the number of vehicles of each route entry; the     *)
(* vehicles carry the run numbers 1, 2, ... in the order the upstream      *)
(* lists them.  A route entry with one vehicle gives it as a single        *)
(* object, an envelope with one route entry likewise.                      *)
(***************************************************************************)
TrainField(first, count) ==
    IF count = 0 THEN Absent
    ELSE IF count = 1 THEN Vehicle(first)
    ELSE List([j \in 1..count |-> Vehicle(first + j - 1)])

RECURSIVE ShapeEntries(_, _)
ShapeEntries(shape, first) ==
    IF shape = <<>> THEN <<>>
    ELSE <<MkObj([name |-> Str("line"), train |-> TrainField(first, Head(shape))])>>
             \o ShapeEntries(Tail(shape), first + Head(shape))

OrderedEnvelope(errCd, shape) ==
    LET entries == ShapeEntries(shape, 1) IN
    Envelope(errCd, IF Len(entries) = 1 THEN entries[1] ELSE List(entries))

\* one route entry with n vehicles, or two route entries: a full one, then one
\* with a single vehicle
Shapes == {<<n>> : n \in 0..MaxTrains} \cup {<<MaxTrains, 1>>}

FailResponses ==
    { Timeout, TransportError, Undecodable,
      Json(OrderedEnvelope(Str("500"), <<1>>)) }

AggResponses ==
    FailResponses \cup {Json(OrderedEnvelope(Num(0), sh)) : sh \in Shapes}

(***************************************************************************)
(* Spec: one GET /api/trains.                                              *)
(***************************************************************************)
\* a flattening that stops one batch early
RECURSIVE FlattenShort(_, _)
FlattenShort(batches, i) ==
    IF i >= NumRoutes THEN <<>>
    ELSE batches[i].trains \o FlattenShort(batches, i + 1)

\* a flattening that reads the batches last to first
RECURSIVE FlattenBackwards(_, _)
FlattenBackwards(batches, i) ==
    IF i > NumRoutes THEN <<>>
    ELSE FlattenBackwards(batches, i + 1) \o batches[i].trains

\* [t for batch in results for t in batch], over the batches from index i on
RECURSIVE Flatten(_, _)
Flatten(batches, i) ==
    IF i > NumRoutes THEN <<>>
    ELSE batches[i].trains \o Flatten(batches, i + 1)

Init ==
    /\ IdleFetch
    /\ IdleFollow
    /\ pc = "idle"
    /\ task = [i \in RouteIdx |-> "none"]
    /\ upstream = [i \in RouteIdx |-> NoResp]
    /\ results = [i \in RouteIdx |-> Returned(<<>>)]
    /\ gets = [i \in RouteIdx |-> 0]
    /\ overtaken = FALSE
    /\ trains = <<>>
    /\ httpStatus = 0

\* pool.map(fetch_route, ROUTES): one future per route, submitted in order
PoolMap ==
    /\ pc = "idle"
    /\ pc' = "mapped"
    /\ task' = [i \in RouteIdx |-> "queued"]
    /\ UNCHANGED <<upstream, results, gets, overtaken, trains, httpStatus>>
    /\ UNCHANGED fetchVars
    /\ UNCHANGED followVars

\* a pool whose test for a free worker is inverted: no call ever starts
WorkerStartInverted(i) ==
    /\ task[i] = "queued"
    /\ Cardinality({j \in RouteIdx : task[j] = "running"}) > max_workers
    /\ task' = [task EXCEPT ![i] = "running"]
    /\ gets' = [gets EXCEPT ![i] = @ + 1]
    /\ UNCHANGED <<pc, upstream, results, overtaken, trains, httpStatus>>
    /\ UNCHANGED fetchVars
    /\ UNCHANGED followVars

\* a worker thread takes the call for route i and issues its GET
WorkerStart(i) ==
    /\ task[i] = "queued"
    /\ Cardinality({j \in RouteIdx : task[j] = "running"}) < max_workers
    /\ task' = [task EXCEPT ![i] = "running"]
    /\ gets' = [gets EXCEPT ![i] = @ + 1]
    /\ UNCHANGED <<pc, upstream, results, overtaken, trains, httpStatus>>
    /\ UNCHANGED fetchVars
    /\ UNCHANGED followVars

\* a pool in which a failed fetch cancels the calls still queued
WorkerFinishCancels(i, resp) ==
    /\ task[i] = "running"
    /\ upstream' = [upstream EXCEPT ![i] = resp]
    /\ results' = [results EXCEPT ![i] = fetch_route(ROUTES[i], resp)]
    /\ task' = [j \in RouteIdx |->
                   IF j = i \/ (resp \in FailResponses /\ task[j] = "queued")
                   THEN "done" ELSE task[j]]
    /\ overtaken' = (overtaken \/ \E j \in RouteIdx : j < i /\ task[j] # "done")
    /\ UNCHANGED <<pc, gets, trains, httpStatus>>
    /\ UNCHANGED fetchVars
    /\ UNCHANGED followVars

\* the GET of route i ends with resp; fetch_route finishes and sets the future
WorkerFinish(i, resp) ==
    /\ task[i] = "running"
    /\ upstream' = [upstream EXCEPT ![i] = resp]
    /\ results' = [results EXCEPT ![i] = fetch_route(ROUTES[i], resp)]
    /\ task' = [task EXCEPT ![i] = "done"]
    /\ overtaken' = (overtaken \/ \E j \in RouteIdx : j < i /\ task[j] # "done")
    /\ UNCHANGED <<pc, gets, trains, httpStatus>>
    /\ UNCHANGED fetchVars
    /\ UNCHANGED followVars

\* a shutdown that does not wait for the calls
PoolJoinNoWait ==
    /\ pc = "mapped"
    /\ pc' = "joined"
    /\ UNCHANGED <<task, upstream, results, gets, overtaken, trains, httpStatus>>
    /\ UNCHANGED fetchVars
    /\ UNCHANGED followVars

\* leaving the with block: shutdown(wait=True) returns once every call is done
PoolJoin ==
    /\ pc = "mapped"
    /\ \A i \in RouteIdx : task[i] = "done"
    /\ pc' = "joined"
    /\ UNCHANGED <<task, upstream, results, gets, overtaken, trains, httpStatus>>
    /\ UNCHANGED fetchVars
    /\ UNCHANGED followVars

\* the comprehension reads the futures in order (an exception stored in one
\* is raised again: the handler dies with a 500), then jsonify
Respond ==
    /\ pc = "joined"
    /\ pc' = "done"
    /\ IF \E i \in RouteIdx : results[i].exc
       THEN /\ trains' = <<>>
            /\ httpStatus' = 500
       ELSE /\ trains' = Flatten(results, 1)
            /\ httpStatus' = 200
    /\ UNCHANGED <<task, upstream, results, gets, overtaken>>
    /\ UNCHANGED fetchVars
    /\ UNCHANGED followVars

Next ==
    \/ PoolMap
    \/ \E i \in RouteIdx : WorkerStart(i)
    \/ \E i \in RouteIdx : \E resp \in AggResponses : WorkerFinish(i, resp)
    \/ PoolJoin
    \/ Respond

Spec == Init /\ [][Next]_vars

\* The handler's thread runs on, the pool hands every queued call to a worker,
\* and every GET ends: with a response, an error, or the timeout of 10 s.
Fairness ==
    /\ WF_vars(PoolMap)
    /\ WF_vars(PoolJoin)
    /\ WF_vars(Respond)
    /\ \A i \in RouteIdx : WF_vars(WorkerStart(i))
    /\ \A i \in RouteIdx : WF_vars(\E resp \in AggResponses : WorkerFinish(i, resp))

FairSpec == Init /\ [][Next]_vars /\ Fairness

(***************************************************************************)
(* api_train_follow.  Characters are named by themselves (ASCII) or by     *)
(* their code point; a run number is a sequence of characters.             *)
(***************************************************************************)
AsciiDigits == {Digits[i] : i \in DOMAIN Digits}
ArabicIndicThree == "U+0663"    \* a decimal digit (category Nd) outside ASCII
SuperscriptTwo == "U+00B2"      \* a digit (category No) that is not a decimal digit

\* str.isdecimal() of one character: the decimal digits
IsDecimalChar(c) == c \in AsciiDigits \cup {ArabicIndicThree}

\* str.isdigit() of one character: decimal digits and the other characters
\* with the Unicode property Numeric_Type=Digit, such as superscript digits
IsDigitChar(c) == IsDecimalChar(c) \/ c = SuperscriptTwo

\* rn.isdigit()
isdigit(str) == Len(str) > 0 /\ \A i \in DOMAIN str : IsDigitChar(str[i])

\* how the handler ends: exc says an exception left the code
Answer(body, status) == [exc |-> FALSE, status |-> status, body |-> body]
Unhandled == [exc |-> TRUE, status |-> 500, body |-> Null]

InvalidRun == Answer(Obj([error |-> Str("Invalid run number")]), 400)
FetchFailed == Answer(Obj([error |-> Str("Failed to fetch train details")]), 502)
NoAnswer == [exc |-> FALSE, status |-> 0, body |-> Null]

\* an eta field used as it comes
follow_etas_raw(ctatt) == GetOr(ctatt, "eta", List(<<>>))

\* etas = ctatt.get('eta', []); if not isinstance(etas, list): etas = [etas]
follow_etas(ctatt) == List(AsList(GetOr(ctatt, "eta", List(<<>>))))

\* the try block of api_train_follow
follow_try(resp) ==
    IF resp.kind \in {"timeout", "transport"} THEN Unhandled      \* requests.get
    ELSE IF resp.kind = "undecodable" THEN Unhandled              \* resp.json()
    ELSE LET data == resp.json IN
         IF ~IsDict(data) THEN Unhandled
         ELSE LET ctatt == GetOr(data, "ctatt", EmptyObj) IN
              IF ~IsDict(ctatt) THEN Unhandled
              ELSE IF StatusFails(ctatt) THEN Answer(Obj([eta |-> List(<<>>)]), 200)
              ELSE Answer(Obj([eta |-> follow_etas(ctatt),
                               position |-> Get(ctatt, "position")]), 200)

\* a handler that catches the errors of requests.get only
follow_request_narrow(resp) ==
    LET body == follow_try(resp) IN
    IF body.exc /\ resp.kind \in {"timeout", "transport"} THEN FetchFailed ELSE body

\* try: ... except Exception: return jsonify({'error': ...}), 502
follow_request(resp) ==
    LET body == follow_try(resp) IN
    IF body.exc THEN FetchFailed ELSE body

(***************************************************************************)
(* FollowSpec: one GET /api/train/<rn>.  The URL rule hands the handler a  *)
(* non-empty run number.                                                   *)
(***************************************************************************)
RnChars == {"7", "a", ArabicIndicThree, SuperscriptTwo}
RunNumbers == SeqsUpTo(RnChars, MaxRnLen) \ {<<>>}

EtaVals == {Obj([staNm |-> Str("A")]), Obj([staNm |-> Str("B")]), EmptyObj}
EtaFields ==
    {Absent, Null, Str("junk")} \cup EtaVals
        \cup {List(s) : s \in SeqsUpTo(EtaVals, MaxEtas)}
PositionFields == {Absent, Null, Obj([lat |-> Str("41.9")])}

FollowEnvelope(errCd, eta, position) ==
    Obj([ctatt |-> MkObj([errCd |-> errCd, eta |-> eta, position |-> position])])

FollowResponses ==
    {Timeout, TransportError, Undecodable}
        \cup {Json(j) : j \in {Null, Str("junk"), List(<<>>), EmptyObj,
                               Obj([ctatt |-> Null]), Obj([ctatt |-> Str("junk")])}}
        \cup {Json(FollowEnvelope(c, e, p)) :
                  c \in OkCodes, e \in EtaFields, p \in PositionFields}
        \cup {Json(FollowEnvelope(c, e, p)) :
                  c \in BadCodes, e \in {Absent, Obj([staNm |-> Str("A")])},
                  p \in {Absent, Obj([lat |-> Str("41.9")])}}

FollowInit ==
    /\ IdleAgg
    /\ IdleFetch
    /\ rn \in RunNumbers
    /\ fwPc = "start"
    /\ fwResp = NoResp
    /\ fwResult = NoAnswer
    /\ netCalls = 0

\* if not rn.isdigit(): return 400; otherwise requests.get is called
FollowValidate ==
    /\ fwPc = "start"
    /\ IF ~isdigit(rn)
       THEN /\ fwResult' = InvalidRun
            /\ fwPc' = "done"
            /\ UNCHANGED netCalls
       ELSE /\ fwPc' = "requesting"
            /\ netCalls' = netCalls + 1
            /\ UNCHANGED fwResult
    /\ UNCHANGED <<rn, fwResp>>
    /\ UNCHANGED aggVars
    /\ UNCHANGED fetchVars

\* the GET ends with resp and the handler answers
FollowRespond(resp) ==
    /\ fwPc = "requesting"
    /\ fwResp' = resp
    /\ fwResult' = follow_request(resp)
    /\ fwPc' = "done"
    /\ UNCHANGED <<rn, netCalls>>
    /\ UNCHANGED aggVars
    /\ UNCHANGED fetchVars

FollowNext ==
    \/ FollowValidate
    \/ \E resp \in FollowResponses : FollowRespond(resp)

FollowSpec == FollowInit /\ [][FollowNext]_vars

(***************************************************************************)
(* Properties of the aggregate request (Spec).                             *)
(***************************************************************************)
Range(s) == {s[i] : i \in DOMAIN s}

\* what fetch_route gives for route i on the response its GET received
Fetched(i) == fetch_route(ROUTES[i], upstream[i]).trains

RECURSIVE SumFetched(_)
SumFetched(i) == IF i > NumRoutes THEN 0 ELSE Len(Fetched(i)) + SumFetched(i + 1)

\* C1: the list api_trains returns is as long as the lists fetch_route returns
\* for the routes, added up: flattening drops no record and duplicates none.
C1_LengthIsSum == pc = "done" => Len(trains) = SumFetched(1)

C1_Witness ==
    /\ pc = "done"
    /\ Len(trains) >= 3
    /\ \E i \in RouteIdx : Fetched(i) = <<>>
    /\ \E i, j \in RouteIdx : i # j /\ Len(Fetched(i)) >= 1 /\ Len(Fetched(j)) >= 2

RouteIndexOf(t) == CHOOSE i \in 1..Len(ROUTES) : ROUTES[i] = Get(t, "rt").v
RunNo(t) == CHOOSE n \in 0..(MaxTrains + 1) : NatStr(n) = Get(t, "rn").v

\* C2: whatever order the fetches start and finish in, the records appear
\* route by route in ROUTES order, and within a route in the order the upstream
\* listed them (the upstream numbers a route's vehicles 1, 2, ... as it lists them).
C2_RouteOrder ==
    pc = "done" =>
        \A i, j \in 1..Len(trains) :
            i < j =>
                \/ RouteIndexOf(trains[i]) < RouteIndexOf(trains[j])
                \/ /\ RouteIndexOf(trains[i]) = RouteIndexOf(trains[j])
                   /\ RunNo(trains[i]) < RunNo(trains[j])

C2_Witness ==
    /\ pc = "done"
    /\ overtaken
    /\ \E i, j \in 1..Len(trains) :
           /\ i + 1 < j
           /\ RouteIndexOf(trains[i]) = RouteIndexOf(trains[i + 1])
           /\ RouteIndexOf(trains[i]) < RouteIndexOf(trains[j])

RECURSIVE FetchedExcept(_, _)
FetchedExcept(f, i) ==
    IF i > NumRoutes THEN <<>>
    ELSE (IF i = f THEN <<>> ELSE Fetched(i)) \o FetchedExcept(f, i + 1)

OnlyFails(f) ==
    /\ upstream[f] \in FailResponses
    /\ \A i \in RouteIdx \ {f} : upstream[i] \in AggResponses \ FailResponses

\* C3: when the fetch of one route fails (timeout, transport error, undecodable
\* body, non-success status) and the others succeed, the request answers 200
\* with exactly the records of the other routes, in order, each route giving
\* what fetch_route gives on its own response.
C3_OneRouteFails ==
    pc = "done" =>
        \A f \in RouteIdx :
            OnlyFails(f) => httpStatus = 200 /\ trains = FetchedExcept(f, 1)

C3_Witness ==
    /\ pc = "done"
    /\ OnlyFails(2)
    /\ upstream[2] = Undecodable
    /\ Len(Fetched(1)) >= 1
    /\ Len(Fetched(3)) >= 1
    /\ Len(trains) = Len(Fetched(1)) + Len(Fetched(3))

\* C5: the aggregate request never ends in an error: whatever the routes'
\* fetches produced, all failing included, it answers 200 with a list.
C5_NeverFails ==
    /\ httpStatus \in {0, 200}
    /\ pc = "done" => httpStatus = 200 /\ trains \in Seq({t \in Range(trains) : IsDict(t)})

C5_Witness ==
    /\ pc = "done"
    /\ \A i \in RouteIdx : upstream[i] \in FailResponses
    /\ {upstream[i] : i \in RouteIdx} = {Timeout, Undecodable}
    /\ httpStatus = 200
    /\ trains = <<>>

(***************************************************************************)
(* Properties of fetch_route (FetchSpec).                                  *)
(***************************************************************************)
\* C4: fetch_route always returns a list and lets no exception out; when a
\* step of it fails, also after vehicles were already appended, the list is
\* empty; a returned record is always an object stamped with the route.
C4_TotalAllOrNothing ==
    fPc = "done" =>
        /\ ~fResult.exc
        /\ fBody.exc => fResult.trains = <<>>
        /\ \A i \in DOMAIN fResult.trains :
               /\ IsDict(fResult.trains[i])
               /\ Get(fResult.trains[i], "rt") = Str(fRoute)

C4_Witness ==
    /\ fPc = "done"
    /\ fBody.exc
    /\ Len(fBody.trains) >= 2
    /\ fResult = Returned(<<>>)

\* the envelope has a status and a route field
HasRouteField(resp) ==
    /\ resp.kind = "json"
    /\ IsDict(resp.json)
    /\ IsDict(Get(resp.json, "ctatt"))
    /\ "route" \in DOMAIN Get(resp.json, "ctatt").v

RouteField(resp) == Get(resp.json, "ctatt").v["route"]

WithRouteField(resp, r) ==
    Json(SetItem(resp.json, "ctatt", SetItem(Get(resp.json, "ctatt"), "route", r)))

HasObjectTrain(entry) ==
    IsDict(entry) /\ "train" \in DOMAIN entry.v /\ IsDict(entry.v["train"])

\* the route entry with a single-object train field put in a one-element list
WrapTrain(entry) ==
    IF HasObjectTrain(entry)
    THEN SetItem(entry, "train", List(<<entry.v["train"]>>))
    ELSE entry

WrapTrains(r) ==
    IF IsList(r) THEN List([i \in DOMAIN r.v |-> WrapTrain(r.v[i])]) ELSE WrapTrain(r)

\* C9: fetch_route returns the same for a route field that is the single
\* object x and for the one-element list [x], and the same for a route entry
\* whose train field is the single object v and for one whose train field is [v].
C9_CoercionEquivalence ==
    fPc = "done" /\ HasRouteField(fResp) =>
        /\ IsDict(RouteField(fResp)) =>
               fResult = fetch_route(fRoute,
                             WithRouteField(fResp, List(<<RouteField(fResp)>>)))
        /\ fResult = fetch_route(fRoute,
                         WithRouteField(fResp, WrapTrains(RouteField(fResp))))

(***************************************************************************)
(* Properties of the follow lookup (FollowSpec).                           *)
(***************************************************************************)
\* the run number consists solely of decimal digits
DecimalOnly(str) == \A i \in DOMAIN str : IsDecimalChar(str[i])

\* C6: a run number that does not consist solely of decimal digits is
\* answered 400 'Invalid run number' and no upstream request is issued for it;
\* a run number of decimal digits is never answered 400.
C6_InvalidInput ==
    /\ ~DecimalOnly(rn) => netCalls = 0
    /\ fwPc = "done" /\ ~DecimalOnly(rn) => fwResult = InvalidRun
    /\ fwPc = "done" /\ DecimalOnly(rn) => fwResult.status # 400

\* the response decodes to an envelope whose status is not the success sentinel
NonSuccessEnvelope(resp) ==
    /\ resp.kind = "json"
    /\ IsDict(resp.json)
    /\ IsDict(GetOr(resp.json, "ctatt", EmptyObj))
    /\ StatusFails(GetOr(resp.json, "ctatt", EmptyObj))

\* C7: for a valid run number and an envelope with a non-success status the
\* lookup answers 200 with an empty eta list and a position that is present
\* and null.
C7_EmptySuccess ==
    fwPc = "done" /\ NonSuccessEnvelope(fwResp) =>
        fwResult = Answer(Obj([eta |-> List(<<>>), position |-> Null]), 200)

\* the request timed out, failed in transport, or its body is no envelope
UpstreamDown(resp) ==
    \/ resp.kind \in {"timeout", "transport", "undecodable"}
    \/ resp.kind = "json" /\ ~IsDict(resp.json)
    \/ resp.kind = "json" /\ IsDict(resp.json)
           /\ ~IsDict(GetOr(resp.json, "ctatt", EmptyObj))

\* C8: for a valid run number, a timeout, a transport error or an undecodable
\* body is answered 502 'Failed to fetch train details'; a non-success status
\* is answered 200, a different outcome; no exception leaves the handler.
C8_UpstreamUnavailable ==
    /\ ~fwResult.exc
    /\ fwPc = "done" /\ UpstreamDown(fwResp) => fwResult = FetchFailed
    /\ fwPc = "done" /\ NonSuccessEnvelope(fwResp) =>
           fwResult.status = 200 /\ fwResult # FetchFailed

C8_Witness ==
    /\ fwPc = "done"
    /\ isdigit(rn)
    /\ fwResp = Undecodable
    /\ fwResult = FetchFailed

\* the envelope has a success status and an eta field that is a single object
HasObjectEta(resp) ==
    /\ resp.kind = "json"
    /\ IsDict(resp.json)
    /\ IsDict(Get(resp.json, "ctatt"))
    /\ ~StatusFails(Get(resp.json, "ctatt"))
    /\ IsDict(Get(Get(resp.json, "ctatt"), "eta"))

EtaField(resp) == Get(Get(resp.json, "ctatt"), "eta")

WithEtaField(resp, e) ==
    Json(SetItem(resp.json, "ctatt", SetItem(Get(resp.json, "ctatt"), "eta", e)))

\* C10: for a valid run number and a success envelope, an eta field that is
\* the single object e is answered as the one-element list [e] is: same eta
\* list, same position.
C10_EtaCoercion ==
    fwPc = "done" /\ HasObjectEta(fwResp) =>
        /\ fwResult = follow_request(WithEtaField(fwResp, List(<<EtaField(fwResp)>>)))
        /\ fwResult.body.v["eta"] = List(<<EtaField(fwResp)>>)

C10_Witness ==
    /\ fwPc = "done"
    /\ HasObjectEta(fwResp)
    /\ EtaField(fwResp) = EmptyObj
    /\ "position" \in DOMAIN Get(fwResp.json, "ctatt").v
    /\ fwResult.status = 200
    /\ fwResult.body.v["eta"] = List(<<EmptyObj>>)

(***************************************************************************)
(* More properties of the aggregate request (Spec).                        *)
(***************************************************************************)
\* how many records the routes before route i contributed
RECURSIVE SumBefore(_)
SumBefore(i) == IF i = 1 THEN 0 ELSE SumBefore(i - 1) + Len(results[i - 1].trains)

\* C12: every record api_trains returns has an 'rt' that is a configured route
\* and is the route whose fetch produced the record, also when the upstream
\* entry came with an 'rt' of its own; no record carries another route's name.
C12_StampedWithOwnRoute ==
    pc = "done" =>
        /\ \A n \in 1..Len(trains) :
               /\ IsDict(trains[n])
               /\ \E i \in RouteIdx : Get(trains[n], "rt") = Str(ROUTES[i])
        /\ \A i \in RouteIdx : \A j \in 1..Len(results[i].trains) :
               /\ SumBefore(i) + j <= Len(trains)
               /\ Get(trains[SumBefore(i) + j], "rt") = Str(ROUTES[i])

C12_Witness ==
    /\ pc = "done"
    /\ \E n \in 1..Len(trains) :
           /\ Get(trains[n], "rn") = Str("2")
           /\ Get(trains[n], "rt") = Str(ROUTES[2])
    /\ \E n \in 1..Len(trains) : Get(trains[n], "rt") = Str(ROUTES[1])
    /\ Get(Vehicle(2), "rt") = Str("upstream")

\* C13: api_trains answers only after the fetch of every route has finished:
\* in no state is there a response while a fetch is still queued or running.
C13_NoPartialResult ==
    (pc = "done" \/ httpStatus # 0 \/ trains # <<>>) =>
        \A i \in RouteIdx : task[i] = "done" /\ upstream[i] # NoResp

C13_Witness ==
    /\ pc = "done"
    /\ httpStatus = 200
    /\ overtaken
    /\ \A i \in RouteIdx : task[i] = "done"
    /\ \E i \in RouteIdx : upstream[i] = Timeout

\* C16: in one aggregate request every route is fetched exactly once, one GET
\* each, none repeated and none left out; a fetch that failed keeps no other
\* route's fetch from being issued and from finishing.
C16_OneGetPerRoute ==
    /\ \A i \in RouteIdx :
           gets[i] = (IF task[i] \in {"running", "done"} THEN 1 ELSE 0)
    /\ pc = "done" => \A i \in RouteIdx : gets[i] = 1 /\ upstream[i] # NoResp
    /\ \A i \in RouteIdx : task[i] = "queued" => ENABLED WorkerStart(i)
    /\ \A i \in RouteIdx :
           task[i] = "running" => ENABLED (\E resp \in AggResponses : WorkerFinish(i, resp))

C16_Witness ==
    /\ pc = "done"
    /\ upstream[1] = Timeout
    /\ upstream[2] = TransportError
    /\ \A i \in RouteIdx : gets[i] = 1
    /\ Len(results[NumRoutes].trains) >= 1

\* C17: when every fetch ends (response, error or timeout) and the pool gets
\* to run, api_trains returns its response: it does not wait forever at the
\* end of the with block.
C17_Terminates == <>(pc = "done" /\ httpStatus # 0)

C17_Witness ==
    /\ pc = "done"
    /\ httpStatus = 200
    /\ \E i \in RouteIdx : upstream[i] = Timeout
    /\ \E i \in RouteIdx : Len(results[i].trains) >= 1

(***************************************************************************)
(* More properties of fetch_route (FetchSpec).                             *)
(***************************************************************************)
\* the response decodes to an object whose ctatt, if it has one, is an object
EnvelopeLike(resp) ==
    /\ resp.kind = "json"
    /\ IsDict(resp.json)
    /\ IsDict(GetOr(resp.json, "ctatt", EmptyObj))

Ctatt(resp) == GetOr(resp.json, "ctatt", EmptyObj)

\* the status field: the number 0 or the string "0"
ZeroStatus(resp) ==
    /\ "errCd" \in DOMAIN Ctatt(resp).v
    /\ Ctatt(resp).v["errCd"] \in {Num(0), Str("0")}

WithErrCd(resp, c) == Json(SetItem(resp.json, "ctatt", SetItem(Ctatt(resp), "errCd", c)))

OneVehicleRoute == MkObj([train |-> Vehicle(1)])

\* C14: the status is a success exactly when it reads '0' as a string: the
\* number 0 and the string "0" give the same result, the payload's vehicles;
\* any other status, a missing status or a missing envelope gives the empty
\* list whatever the payload holds.
C14_StatusSentinel ==
    fPc = "done" /\ EnvelopeLike(fResp) =>
        IF ZeroStatus(fResp)
        THEN /\ fResult = fetch_route(fRoute, WithErrCd(fResp, Num(0)))
             /\ fResult = fetch_route(fRoute, WithErrCd(fResp, Str("0")))
             /\ Get(Ctatt(fResp), "route") = OneVehicleRoute =>
                    fResult = Returned(<<SetItem(Vehicle(1), "rt", Str(fRoute))>>)
        ELSE fResult = Returned(<<>>)

C14_Witness ==
    /\ fPc = "done"
    /\ EnvelopeLike(fResp)
    /\ Get(Ctatt(fResp), "errCd") = Num(0)
    /\ Get(Ctatt(fResp), "route") = OneVehicleRoute
    /\ Len(fResult.trains) = 1

\* the route entry has no vehicle list, or an empty one
NoVehicles(entry) ==
    /\ IsDict(entry)
    /\ \/ "train" \notin DOMAIN entry.v
       \/ entry.v["train"] \in {Null, List(<<>>), EmptyObj}

\* the route entry lists vehicles: one object, or a list of objects
ListsVehicles(entry) ==
    /\ IsDict(entry)
    /\ "train" \in DOMAIN entry.v
    /\ entry.v["train"] \notin {Null, List(<<>>), EmptyObj}
    /\ IsDict(entry.v["train"]) \/ IsList(entry.v["train"])
    /\ \A i \in DOMAIN AsList(entry.v["train"]) : IsDict(AsList(entry.v["train"])[i])

\* the vehicles of the entries, each with 'rt' set, in the order listed
RECURSIVE ListedVehicles(_, _)
ListedVehicles(entries, route) ==
    IF entries = <<>> THEN <<>>
    ELSE LET e == Head(entries)
             own == IF NoVehicles(e) THEN <<>>
                    ELSE [i \in DOMAIN AsList(e.v["train"]) |->
                              SetItem(AsList(e.v["train"])[i], "rt", Str(route))]
         IN own \o ListedVehicles(Tail(entries), route)

\* C15: with a success status, a route entry without vehicles is skipped and
\* is no failure: the vehicles of the other entries are returned, in order; a
\* missing or empty route field gives the empty list.
C15_SkipEmptyEntries ==
    fPc = "done" /\ EnvelopeLike(fResp) /\ ZeroStatus(fResp) =>
        /\ Get(Ctatt(fResp), "route") \in {Null, List(<<>>), EmptyObj} =>
               ~fBody.exc /\ fResult = Returned(<<>>)
        /\ LET r == Get(Ctatt(fResp), "route") IN
           (IsList(r) /\ \A i \in DOMAIN r.v : NoVehicles(r.v[i]) \/ ListsVehicles(r.v[i])) =>
               ~fBody.exc /\ fResult = Returned(ListedVehicles(r.v, fRoute))

C15_Witness ==
    /\ fPc = "done"
    /\ EnvelopeLike(fResp)
    /\ ZeroStatus(fResp)
    /\ LET r == Get(Ctatt(fResp), "route") IN
           /\ IsList(r)
           /\ Len(r.v) = 2
           /\ NoVehicles(r.v[1])
           /\ ListsVehicles(r.v[2])
    /\ Len(fResult.trains) = 2

(***************************************************************************)
(* More properties of the follow lookup (FollowSpec).                      *)
(***************************************************************************)
\* C18: for a valid run number and a success envelope, every element of the
\* returned eta list is an eta the upstream supplied, never a null; a missing
\* or null eta field gives the empty list; the position is the upstream's,
\* null when it has none.
C18_EtaPassThrough ==
    fwPc = "done" /\ EnvelopeLike(fwResp) /\ ZeroStatus(fwResp) =>
        LET ctatt == Ctatt(fwResp)
            etas == fwResult.body.v["eta"]
        IN /\ fwResult.status = 200
           /\ IsList(etas)
           /\ \A i \in DOMAIN etas.v :
                  /\ etas.v[i] # Null
                  /\ "eta" \in DOMAIN ctatt.v
                  /\ \E j \in DOMAIN AsList(ctatt.v["eta"]) : AsList(ctatt.v["eta"])[j] = etas.v[i]
           /\ Get(ctatt, "eta") = Null => etas = List(<<>>)
           /\ fwResult.body.v["position"] = Get(ctatt, "position")

====
